---- MODULE Spec2Model ----
(***************************************************************************)
(* Model of mythril/analysis/solver.py: the memoized solver front end      *)
(* (get_model), the minimisation-constraint builder, the concrete          *)
(* transaction-sequence extractor (get_transaction_sequence) and the       *)
(* keccak preimage resolver (_replace_with_actual_sha).                    *)
(*                                                                         *)
(* Python strings are sequences of one-character strings.  Python ints     *)
(* that do not fit a machine word (256-bit values, balances) are sequences *)
(* of hexadecimal digits 0..15, least significant first, without leading   *)
(* zeros: 0 is <<>>.                                                       *)
(***************************************************************************)
EXTENDS Integers, Sequences, FiniteSets, TLC

VARIABLES
    cache,                    \* the lru_cache of get_model, least recent first
    time_remaining,           \* time_handler.time_remaining(), in ms
    solver_timeout,           \* analysis_args.solver_timeout, in ms
    keccak_function_manager,  \* the registry of hash functions
    ncalls, last, checked, returned,   \* history of the get_model calls
    gs, result,               \* get_transaction_sequence: its input and result
    sha                       \* a run of _replace_with_actual_sha, window by window

solveVars == <<cache, time_remaining, solver_timeout, ncalls, last, checked, returned>>

vars == <<cache, time_remaining, solver_timeout, keccak_function_manager,
          ncalls, last, checked, returned, gs, result, sha>>

(***************************************************************************)
(* Bounds of the model.                                                    *)
(***************************************************************************)
\* number of get_model calls in one behaviour
MaxCalls == 2

\* number of runs of the preimage resolver over one transaction list
MaxRuns == 2

(***************************************************************************)
(* Python ints and their text forms.                                       *)
(***************************************************************************)
Min(a, b) == IF a <= b THEN a ELSE b

HexDigits == <<"0", "1", "2", "3", "4", "5", "6", "7",
               "8", "9", "a", "b", "c", "d", "e", "f">>

\* s repeated n times
RECURSIVE Rep(_, _)
Rep(s, n) == IF n <= 0 THEN <<>> ELSE s \o Rep(s, n - 1)

RECURSIVE Reverse(_)
Reverse(s) == IF s = <<>> THEN <<>> ELSE Reverse(Tail(s)) \o <<Head(s)>>

\* drop the zeros at the most significant end
RECURSIVE Norm(_)
Norm(d) == IF d # <<>> /\ d[Len(d)] = 0 THEN Norm(SubSeq(d, 1, Len(d) - 1)) ELSE d

\* a machine-size natural as a digit sequence
RECURSIVE FromInt(_)
FromInt(n) == IF n = 0 THEN <<>> ELSE <<n % 16>> \o FromInt(n \div 16)

\* d * k + carry, for a small k
RECURSIVE MulSmall(_, _, _)
MulSmall(d, k, carry) ==
    IF d = <<>> THEN FromInt(carry)
    ELSE LET v == d[1] * k + carry
         IN <<v % 16>> \o MulSmall(Tail(d), k, v \div 16)

\* the decimal literal 1 followed by n zeros
RECURSIVE Pow10(_)
Pow10(n) == IF n = 0 THEN <<1>> ELSE MulSmall(Pow10(n - 1), 10, 0)

\* d + 1
RECURSIVE Succ(_)
Succ(d) ==
    IF d = <<>> THEN <<1>>
    ELSE IF d[1] < 15 THEN <<d[1] + 1>> \o Tail(d)
    ELSE <<0>> \o Succ(Tail(d))

\* a < b, unsigned
RECURSIVE Less(_, _)
Less(a, b) ==
    IF Len(a) # Len(b) THEN Len(a) < Len(b)
    ELSE IF a = <<>> THEN FALSE
    ELSE IF a[Len(a)] # b[Len(b)] THEN a[Len(a)] < b[Len(b)]
    ELSE Less(Norm(SubSeq(a, 1, Len(a) - 1)), Norm(SubSeq(b, 1, Len(b) - 1)))

\* UGE(a, b) of mythril.laser.smt: a >= b, unsigned
UGE(a, b) == ~Less(a, b)

\* "%x" % n, and hex(n)[2:]
HexStr(d) == IF d = <<>> THEN <<"0">> ELSE [i \in 1..Len(d) |-> HexDigits[d[Len(d) + 1 - i] + 1]]

\* hex(n)
PyHex(d) == <<"0", "x">> \o HexStr(d)

DigitOf(c) == (CHOOSE i \in 1..16 : HexDigits[i] = c) - 1

\* int(s, 16)
ParseHex(s) == Norm([i \in 1..Len(s) |-> DigitOf(s[Len(s) + 1 - i])])

\* BitVecVal(v, size): v modulo 2^size
BitVecVal(v, size) == Norm(SubSeq(v, 1, Min(Len(v), size \div 4)))

\* s.zfill(width)
ZFill(s, width) == Rep(<<"0">>, width - Len(s)) \o s

\* needle in hay
Contains(hay, needle) ==
    \E i \in 1..(Len(hay) - Len(needle) + 1) :
        SubSeq(hay, i, i + Len(needle) - 1) = needle

\* s[from:] and s[:to] of Python, for 0 <= from, to
SliceFrom(s, from) == SubSeq(s, from + 1, Len(s))
SliceTo(s, to) == SubSeq(s, 1, Min(to, Len(s)))

\* s.replace(old, new) for a non-empty old: every occurrence, left to
\* right, without overlap
RECURSIVE PyReplace(_, _, _)
PyReplace(s, old, new) ==
    IF Len(s) < Len(old) THEN s
    ELSE IF SubSeq(s, 1, Len(old)) = old
         THEN new \o PyReplace(SubSeq(s, Len(old) + 1, Len(s)), old, new)
         ELSE <<Head(s)>> \o PyReplace(Tail(s), old, new)

(***************************************************************************)
(* Constraints.  A constraint is a Python bool (type "bool") or a symbolic *)
(* expression (type "expr") over the symbols of the solver session: the    *)
(* symbol x of a plain solve, or the starting balances, callers, call      *)
(* values and call data of a transaction sequence.  who names the          *)
(* transaction or the address, k the bit-vector constant.                  *)
(***************************************************************************)
Expr(op, who, k) == [type |-> "expr", val |-> TRUE, op |-> op, who |-> who, k |-> k]

BoolLit(b) == [type |-> "bool", val |-> b, op |-> "lit", who |-> 0, k |-> <<>>]

\* UGE(x, k) and ULT(x, k) over the symbol x
XUge(k) == Expr("x_uge", 0, FromInt(k))
XUlt(k) == Expr("x_ult", 0, FromInt(k))

\* the values the symbol x ranges over in the solver stand-in
XDomain == {0, 1, 2}

XModels == [x : XDomain]

\* what stands where no model exists
NoModel == [none |-> TRUE]

\* truth of a symbolic constraint under a model
Holds(c, m) ==
    CASE c.op = "x_uge" -> UGE(FromInt(m.x), c.k)
      [] c.op = "x_ult" -> Less(FromInt(m.x), c.k)
      \* UGE(k, calldatasize of transaction who)
      [] c.op = "size_ule" -> UGE(c.k, FromInt(Len(m.tx[c.who].data)))
      \* UGE(k, starting_balances[caller of transaction who])
      [] c.op = "caller_balance_ule" -> UGE(c.k, m.sb[m.tx[c.who].caller])
      \* UGE(k, starting_balances[who])
      [] c.op = "balance_ule" -> UGE(c.k, m.sb[c.who])
      \* starting_balances[who] == k
      [] c.op = "balance_eq" -> m.sb[c.who] = c.k
      \* UGT(starting_balances[who], k)
      [] c.op = "balance_ugt" -> Less(c.k, m.sb[c.who])
      \* UGE(call value of transaction who, k)
      [] c.op = "value_uge" -> UGE(FromInt(m.tx[c.who].value), c.k)
      \* UGE(calldatasize of transaction who, k)
      [] c.op = "size_uge" -> UGE(FromInt(Len(m.tx[c.who].data)), c.k)
      [] OTHER -> FALSE

\* value of an objective expression under a model
Objective(e, m) ==
    CASE e.obj = "x" -> m.x
      [] e.obj = "calldatasize" -> Len(m.tx[e.who].data)
      [] e.obj = "call_value" -> m.tx[e.who].value
      [] OTHER -> 0

(***************************************************************************)
(* The external optimizing solver (z3 Optimize): s.add, s.minimize,        *)
(* s.maximize, s.check, s.model.                                           *)
(***************************************************************************)
Satisfying(universe, constraints) ==
    {m \in universe : \A i \in 1..Len(constraints) : Holds(constraints[i], m)}

RECURSIVE Optimal(_, _, _)
\* objectives are honoured in the order they were added; sign +1 minimizes
Optimal(models, objectives, sign) ==
    IF objectives = <<>> \/ models = {} THEN models
    ELSE LET e == Head(objectives)
             vals == {sign * Objective(e, m) : m \in models}
             best == CHOOSE v \in vals : \A w \in vals : v <= w
         IN Optimal({m \in models : sign * Objective(e, m) = best},
                    Tail(objectives), sign)

\* the outcomes s.check() can have: "unknown" (timeout) is always possible
CheckOutcomes(universe, constraints, minimize, maximize) ==
    LET sat == Satisfying(universe, constraints)
        opt == Optimal(Optimal(sat, minimize, 1), maximize, -1)
    IN {[result |-> "unknown", model |-> NoModel]}
       \cup (IF sat = {} THEN {[result |-> "unsat", model |-> NoModel]}
             ELSE {[result |-> "sat", model |-> m] : m \in opt})

(***************************************************************************)
(* get_model: the body of the function, lines 37-61.                       *)
(***************************************************************************)
\* mutant: the 500 ms safety margin is forgotten
EffectiveTimeout_NoMargin(a) ==
    IF a.enforce_execution_time
    THEN Min(solver_timeout, time_remaining)
    ELSE solver_timeout

\* line 38-40: the timeout handed to the solver
EffectiveTimeout(a) ==
    IF a.enforce_execution_time
    THEN Min(solver_timeout, time_remaining - 500)
    ELSE solver_timeout

\* mutant: only the first constraint is looked at
HasLiteralFalse_FirstOnly(constraints) ==
    constraints # <<>> /\ constraints[1].type = "bool" /\ ~constraints[1].val

\* line 44-46: a Python False among the constraints
HasLiteralFalse(constraints) ==
    \E i \in 1..Len(constraints) :
        constraints[i].type = "bool" /\ ~constraints[i].val

\* line 48: the constraints that are not Python bools, order kept
StripBools(constraints) == SelectSeq(constraints, LAMBDA c : c.type # "bool")

Raised(timeout) ==
    [outcome |-> "unsat", model |-> NoModel, invoked |-> FALSE,
     check |-> "none", submitted |-> <<>>, timeout |-> timeout]

\* the results the body can produce for call a; invoked: s.check() was called
GetModelBody(a, universe) ==
    LET timeout == EffectiveTimeout(a)
    IN IF a.enforce_execution_time /\ timeout <= 0 THEN {Raised(timeout)}
       ELSE IF HasLiteralFalse(a.constraints) THEN {Raised(timeout)}
       ELSE LET submitted == StripBools(a.constraints)
            IN {[outcome |-> IF o.result = "sat" THEN "model" ELSE "unsat",
                 model |-> o.model, invoked |-> TRUE, check |-> o.result,
                 submitted |-> submitted, timeout |-> timeout] :
                   o \in CheckOutcomes(universe, submitted, a.minimize, a.maximize)}

(***************************************************************************)
(* The lru_cache decorator of line 27.  The key is the call as spelled:    *)
(* the argument values and the way each was passed.  Only returned values  *)
(* are stored; a raised exception leaves the cache as it was.              *)
(***************************************************************************)
maxsize == 8388608

CacheIndex(c, key) ==
    IF \E i \in 1..Len(c) : c[i].key = key
    THEN CHOOSE i \in 1..Len(c) : c[i].key = key
    ELSE 0

RemoveAt(s, i) == SubSeq(s, 1, i - 1) \o SubSeq(s, i + 1, Len(s))

\* mutant: nothing is stored
CacheInsert_NoStore(c, key, model) == c

\* a miss that returned: the entry becomes the most recent one, the least
\* recent one is dropped when the cache is full
CacheInsert(c, key, model) ==
    LET e == [key |-> key, model |-> model]
    IN IF Len(c) >= maxsize THEN Tail(c) \o <<e>> ELSE c \o <<e>>

\* a hit: the entry becomes the most recent one
CacheTouch(c, i) == RemoveAt(c, i) \o <<c[i]>>

\* one call of the decorated function: the new cache and what the caller sees
GetModelCall(a, universe) ==
    LET i == CacheIndex(cache, a)
    IN IF i # 0
       THEN {[cache |-> CacheTouch(cache, i), hit |-> TRUE,
              res |-> [outcome |-> "model", model |-> cache[i].model,
                       invoked |-> FALSE, check |-> "none", submitted |-> <<>>,
                       timeout |-> EffectiveTimeout(a)]]}
       ELSE {[cache |-> IF r.outcome = "model"
                        THEN CacheInsert(cache, a, r.model) ELSE cache,
              hit |-> FALSE, res |-> r] : r \in GetModelBody(a, universe)}

(***************************************************************************)
(* The hash-function registry (keccak_function_manager) and the model's    *)
(* reading of its inverse functions.                                       *)
(***************************************************************************)
\* the marker that symbolic hash values carry in their hex form
hash_matcher == <<"f", "f", "f", "f", "f", "f", "f">>

\* the input widths a hash function may be registered for
Sizes == {256, 512}

\* an inverse function the model does not interpret: model.eval leaves the
\* application unevaluated and as_long() raises AttributeError
NoInterp == [defined |-> FALSE, arg |-> <<>>, val |-> <<>>, els |-> <<>>]

\* an interpreted inverse function: one entry arg -> val, and an else value
Interp(arg, val, els) == [defined |-> TRUE, arg |-> arg, val |-> val, els |-> els]

\* model.eval(inverse(find_input).raw).as_long(); ok is FALSE where it raises
ModelEvalInverse(model, size, find_input) ==
    LET f == model.inverse[size]
    IN [ok |-> f.defined,
        value |-> IF find_input = f.arg THEN f.val ELSE f.els]

\* digests of the concrete hash function: 64 hex digits without the marker,
\* 60 hex digits (the digest has two leading zero bytes), and digests whose
\* hex form happens to hold the marker
DigestPlain == Rep(<<1, 10>>, 32)
DigestOther == Rep(<<2, 11>>, 32)
DigestShort == Rep(<<3, 12>>, 30)
DigestMarked == Rep(<<15>>, 8) \o Rep(<<4, 13>>, 28)

\* preimage candidates: 0x2a, 0xbee5 and 0xc0de
CandA == FromInt(42)
CandB == FromInt(48869)
CandM == FromInt(49374)

\* keccak_function_manager.find_concrete_keccak(input_): one fixed function
\* of the input's value and width
find_concrete_keccak(input_) ==
    CASE input_.value = CandM -> DigestMarked
      [] input_.value = CandB -> DigestShort
      [] input_.size = 512 -> DigestOther
      [] OTHER -> DigestPlain

(***************************************************************************)
(* _replace_with_actual_sha, lines 138-178.                                *)
(***************************************************************************)
NoCode == [none |-> TRUE, bytecode |-> <<>>]
Code(b) == [none |-> FALSE, bytecode |-> b]

NoInput == [none |-> TRUE, value |-> <<>>, size |-> 0]

\* lines 144-147: where the scan of a transaction starts
SIndex(input, code) ==
    IF ~code.none /\ Contains(input, code.bytecode)
    THEN Len(code.bytecode) + 10
    ELSE 10

\* mutant: the search stops at the first width that evaluates, visible or not
RECURSIVE ProbeSizes_FirstSuccess(_, _, _, _, _, _)
ProbeSizes_FirstSuccess(sizes, input_, probed, find_input, txs, model) ==
    IF sizes = <<>> THEN [input_ |-> input_, probed |-> probed]
    ELSE LET size == Head(sizes)
             ev == ModelEvalInverse(model, size, find_input)
         IN IF ~ev.ok
            THEN ProbeSizes_FirstSuccess(Tail(sizes), input_, Append(probed, size),
                                         find_input, txs, model)
            ELSE [input_ |-> [none |-> FALSE, value |-> BitVecVal(ev.value, size),
                              size |-> size],
                  probed |-> Append(probed, size)]

\* lines 153-169: the loop over the registered widths.  input_ keeps the
\* candidate of the last width that evaluated; the loop ends early at a
\* candidate whose hex form occurs in some transaction's input
RECURSIVE ProbeSizes(_, _, _, _, _, _)
ProbeSizes(sizes, input_, probed, find_input, txs, model) ==
    IF sizes = <<>> THEN [input_ |-> input_, probed |-> probed]
    ELSE LET size == Head(sizes)
             ev == ModelEvalInverse(model, size, find_input)
         IN IF ~ev.ok
            THEN ProbeSizes(Tail(sizes), input_, Append(probed, size),
                            find_input, txs, model)
            ELSE LET cand == [none |-> FALSE, value |-> BitVecVal(ev.value, size),
                              size |-> size]
                     hex_input == HexStr(cand.value)
                     found == \E j \in 1..Len(txs) : Contains(txs[j].input, hex_input)
                 IN IF found
                    THEN [input_ |-> cand, probed |-> Append(probed, size)]
                    ELSE ProbeSizes(Tail(sizes), cand, Append(probed, size),
                                    find_input, txs, model)

\* mutant: a digest with leading zeros is not padded
HexKeccak_NoPad(keccak) == PyHex(keccak)

\* lines 173-175: the digest as "0x" and 64 hex digits
HexKeccak(keccak) ==
    LET hex_keccak == PyHex(keccak)
    IN IF Len(hex_keccak) # 66
       THEN <<"0", "x">> \o Rep(<<"0">>, 66 - Len(hex_keccak)) \o SliceFrom(hex_keccak, 2)
       ELSE hex_keccak

\* lines 176-178: the new input of the transaction
Splice(input, s_index, i, hex_keccak) ==
    SliceTo(input, s_index)
        \o PyReplace(SliceFrom(input, s_index), SubSeq(input, i + 1, i + 64),
                     SliceFrom(hex_keccak, 2))

Untouched(txs, data_slice) ==
    [txs |-> txs, substituted |-> FALSE, window |-> data_slice,
     input_ |-> NoInput, probed |-> <<>>, hex_keccak |-> <<>>]

\* mutant: the window is not tested for the marker
ProcessWindow_AnyWindow(txs, t, i, s_index, model) ==
    LET input == txs[t].input
        data_slice == SubSeq(input, i + 1, Min(i + 64, Len(input)))
    IN IF Len(data_slice) # 64 THEN Untouched(txs, data_slice)
       ELSE LET p == ProbeSizes(keccak_function_manager.store_function, NoInput,
                                <<>>, BitVecVal(ParseHex(data_slice), 256), txs, model)
            IN IF p.input_.none
               THEN [Untouched(txs, data_slice) EXCEPT !.probed = p.probed]
               ELSE LET hex_keccak == HexKeccak(find_concrete_keccak(p.input_))
                    IN [txs |-> [txs EXCEPT ![t].input =
                                    Splice(input, s_index, i, hex_keccak)],
                        substituted |-> TRUE, window |-> data_slice,
                        input_ |-> p.input_, probed |-> p.probed,
                        hex_keccak |-> hex_keccak]

\* lines 149-178: one iteration of the loop over the 64-character windows
\* of transaction t, at offset i
ProcessWindow(txs, t, i, s_index, model) ==
    LET input == txs[t].input
        data_slice == SubSeq(input, i + 1, Min(i + 64, Len(input)))
    IN IF ~Contains(data_slice, hash_matcher) \/ Len(data_slice) # 64
       THEN Untouched(txs, data_slice)
       ELSE LET find_input == BitVecVal(ParseHex(data_slice), 256)
                p == ProbeSizes(keccak_function_manager.store_function, NoInput,
                                <<>>, find_input, txs, model)
            IN IF p.input_.none
               THEN [Untouched(txs, data_slice) EXCEPT !.probed = p.probed]
               ELSE LET hex_keccak == HexKeccak(find_concrete_keccak(p.input_))
                    IN [txs |-> [txs EXCEPT ![t].input =
                                    Splice(input, s_index, i, hex_keccak)],
                        substituted |-> TRUE, window |-> data_slice,
                        input_ |-> p.input_, probed |-> p.probed,
                        hex_keccak |-> hex_keccak]

\* line 148: the loop over range(s_index, len(tx["input"]), 64)
RECURSIVE WindowLoop(_, _, _, _, _, _)
WindowLoop(txs, t, i, stop, s_index, model) ==
    IF i >= stop THEN txs
    ELSE WindowLoop(ProcessWindow(txs, t, i, s_index, model).txs,
                    t, i + 64, stop, s_index, model)

\* lines 141-148: one transaction of the list
RunTx(txs, t, model, code) ==
    IF ~Contains(txs[t].input, hash_matcher) THEN txs
    ELSE LET s_index == SIndex(txs[t].input, code)
         IN WindowLoop(txs, t, s_index, Len(txs[t].input), s_index, model)

\* the whole function: every transaction of the list, in order
RECURSIVE ShaFrom(_, _, _, _)
ShaFrom(txs, t, model, code) ==
    IF t > Len(txs) THEN txs ELSE ShaFrom(RunTx(txs, t, model, code), t + 1, model, code)

ReplaceWithActualSha(txs, model, code) == ShaFrom(txs, 1, model, code)

(***************************************************************************)
(* _set_minimisation_constraints, lines 228-268.                           *)
(***************************************************************************)
\* line 102: the cap on the call data size
max_size == 5000

\* line 253: 1000000000000000000000, the bound on a caller's balance
CallerBalanceBound == Pow10(21)

\* mutant: the bound the per-account constraint would have at 10^23
AccountBalanceBound_E23 == Pow10(23)

\* line 263: 100000000000000000000, the bound on every account's balance
AccountBalanceBound == Pow10(20)

Minimize(obj, who) == [obj |-> obj, who |-> who]

\* lines 243-256: two constraints and two objectives per transaction
TransactionConstraints(transaction_sequence, max) ==
    [j \in 1..(2 * Len(transaction_sequence)) |->
        IF j % 2 = 1
        THEN Expr("size_ule", (j + 1) \div 2, FromInt(max))
        ELSE Expr("caller_balance_ule", j \div 2, CallerBalanceBound)]

TransactionObjectives(transaction_sequence) ==
    [j \in 1..(2 * Len(transaction_sequence)) |->
        IF j % 2 = 1
        THEN Minimize("calldatasize", (j + 1) \div 2)
        ELSE Minimize("call_value", j \div 2)]

\* lines 258-266: one constraint per account of world_state
AccountConstraints(accounts) ==
    [j \in 1..Len(accounts) |->
        Expr("balance_ule", accounts[j].address, AccountBalanceBound)]

SetMinimisationConstraints(transaction_sequence, constraints, minimize, max, world_state) ==
    [constraints |-> constraints
                       \o TransactionConstraints(transaction_sequence, max)
                       \o AccountConstraints(world_state.accounts),
     minimize |-> minimize \o TransactionObjectives(transaction_sequence)]

(***************************************************************************)
(* _get_concrete_transaction, lines 196-225.                               *)
(***************************************************************************)
\* mutant: a byte below 16 is rendered as one digit
HexByte_NoPad(b) == SliceFrom(PyHex(FromInt(b)), 2)

\* line 212: one byte of call data as text
HexByte(b) ==
    LET h == PyHex(FromInt(b))
    IN IF Len(h) % 2 = 0 THEN SliceFrom(h, 2) ELSE <<"0">> \o SliceFrom(h, 2)

\* lines 210-215: "".join over the bytes of the call data
RECURSIVE JoinBytes(_)
JoinBytes(bytes) ==
    IF bytes = <<>> THEN <<>> ELSE HexByte(Head(bytes)) \o JoinBytes(Tail(bytes))

\* transaction is the t-th of the sequence: the model holds its caller,
\* call value and call data under that index
GetConcreteTransaction(model, transaction, t) ==
    LET isCreation == transaction.kind = "creation"
        address == IF isCreation THEN <<>> ELSE PyHex(FromInt(transaction.callee))
        value == FromInt(model.tx[t].value)
        caller == <<"0", "x">> \o ZFill(HexStr(FromInt(model.tx[t].caller)), 40)
        input_ == (IF isCreation THEN transaction.code.bytecode ELSE <<>>)
                    \o JoinBytes(model.tx[t].data)
    IN [input |-> <<"0", "x">> \o input_,
        value |-> <<"0", "x">> \o HexStr(value),
        origin |-> caller,
        address |-> address]

(***************************************************************************)
(* _get_concrete_state, lines 181-193.                                     *)
(***************************************************************************)
\* the accounts dict as the list of its entries, in key order
GetConcreteState(initial_accounts, min_price_dict) ==
    [j \in 1..Len(initial_accounts) |->
        [address |-> PyHex(FromInt(initial_accounts[j].address)),
         nonce |-> initial_accounts[j].nonce,
         code |-> initial_accounts[j].code,
         storage |-> initial_accounts[j].storage,
         balance |-> PyHex(min_price_dict[j])]]

(***************************************************************************)
(* get_transaction_sequence, lines 88-135.                                 *)
(***************************************************************************)
\* mutant: the concrete transactions are collected in reverse order
ConcreteTransactions_Reversed(model, transaction_sequence) ==
    [t \in 1..Len(transaction_sequence) |->
        GetConcreteTransaction(model,
            transaction_sequence[Len(transaction_sequence) + 1 - t],
            Len(transaction_sequence) + 1 - t)]

\* lines 114-116
ConcreteTransactions(model, transaction_sequence) ==
    [t \in 1..Len(transaction_sequence) |->
        GetConcreteTransaction(model, transaction_sequence[t], t)]

NoResult ==
    [status |-> "none", check |-> "none", model |-> NoModel, concrete |-> <<>>,
     steps |-> <<>>, initialState |-> <<>>, tx_constraints |-> <<>>]

\* lines 109-135, for the model the solver returned
Concretize(global_state, model) ==
    LET transaction_sequence == global_state.transaction_sequence
        initial_accounts == global_state.initial_accounts
        concrete_transactions == ConcreteTransactions(model, transaction_sequence)
        min_price_dict == [j \in 1..Len(initial_accounts) |->
                              model.sb[initial_accounts[j].address]]
        code == IF transaction_sequence[1].kind = "creation"
                THEN transaction_sequence[1].code ELSE NoCode
    IN [concrete |-> concrete_transactions,
        initialState |-> GetConcreteState(initial_accounts, min_price_dict),
        steps |-> ReplaceWithActualSha(concrete_transactions, model, code)]

\* the call of get_model at line 105
ExtractCall(global_state) ==
    LET built == SetMinimisationConstraints(global_state.transaction_sequence,
                     global_state.constraints, <<>>, max_size,
                     global_state.world_state)
    IN [constraints |-> built.constraints, minimize |-> built.minimize,
        maximize |-> <<>>, enforce_execution_time |-> TRUE, style |-> "keyword"]

(***************************************************************************)
(* Values of the variables a specification does not use.                   *)
(***************************************************************************)
NoCall ==
    [called |-> FALSE, args |-> [constraints |-> <<>>, minimize |-> <<>>,
                                 maximize |-> <<>>,
                                 enforce_execution_time |-> TRUE,
                                 style |-> "positional"],
     outcome |-> "none", model |-> NoModel, invoked |-> FALSE, hit |-> FALSE,
     submitted |-> <<>>, timeout |-> 0, budget |-> 0,
     priorChecked |-> FALSE, priorReturned |-> FALSE, priorModel |-> NoModel]

NoGlobalState ==
    [transaction_sequence |-> <<>>, initial_accounts |-> <<>>,
     world_state |-> [accounts |-> <<>>], constraints |-> <<>>]

NoWindow ==
    [scanned |-> FALSE, t |-> 0, i |-> 0, s_index |-> 0, window |-> <<>>,
     substituted |-> FALSE, input_ |-> NoInput, probed |-> <<>>,
     hex_keccak |-> <<>>]

NoSha ==
    [txs |-> <<>>, code |-> NoCode, model |-> NoModel, t |-> 0, i |-> -1,
     stop |-> 0, s_index |-> 0, run |-> 0, orig |-> <<>>, start |-> <<>>,
     prev |-> <<>>,
     win |-> NoWindow]

NoRegistry == [store_function |-> <<>>]

(***************************************************************************)
(* Specification of the solve cache: get_model is called MaxCalls times    *)
(* while the global time budget runs down.                                 *)
(***************************************************************************)
Atoms == {BoolLit(TRUE), BoolLit(FALSE), XUge(1), XUlt(0)}

\* every constraint list of at most two entries
AllConstraintSets ==
    {<<>>} \cup {<<c>> : c \in Atoms} \cup {<<c, d>> : c \in Atoms, d \in Atoms}

\* a satisfiable list, an unsatisfiable one, one with a Python True to strip
\* and one with a Python False
ConstraintSets ==
    {<<XUge(1)>>, <<XUlt(0)>>, <<BoolLit(TRUE), XUge(1)>>, <<XUge(1), BoolLit(FALSE)>>}

ObjectiveLists == {<<>>, <<Minimize("x", 0)>>}

\* how the optional arguments are passed
Styles == {"positional", "keyword"}

\* no objective, one to minimize, one to maximize
CallArgs ==
    {a \in [constraints : ConstraintSets, minimize : ObjectiveLists,
            maximize : ObjectiveLists, enforce_execution_time : BOOLEAN,
            style : Styles] : a.minimize = <<>> \/ a.maximize = <<>>}

\* calls for the literal-constraint scan: every list, one spelling
LiteralArgs ==
    [constraints : AllConstraintSets, minimize : {<<Minimize("x", 0)>>},
     maximize : {<<>>}, enforce_execution_time : BOOLEAN,
     style : {"keyword"}]

\* constraints, minimize and maximize of a call
Content(a) == <<a.constraints, a.minimize, a.maximize>>

TimeValues == {-100, 500, 501, 20000}

InitSolve ==
    /\ cache = <<>>
    /\ time_remaining \in TimeValues
    /\ solver_timeout = 10000
    /\ keccak_function_manager = NoRegistry
    /\ ncalls = 0
    /\ last = NoCall
    /\ checked = {}
    /\ returned = {}
    /\ gs = NoGlobalState
    /\ result = NoResult
    /\ sha = NoSha

\* a caller calls get_model(a), a drawn from args
GetModelFrom(args) ==
    /\ ncalls < MaxCalls
    /\ \E a \in args : \E s \in GetModelCall(a, XModels) :
         /\ cache' = s.cache
         /\ last' = [called |-> TRUE, args |-> a, outcome |-> s.res.outcome,
                     model |-> s.res.model, invoked |-> s.res.invoked,
                     hit |-> s.hit, submitted |-> s.res.submitted,
                     timeout |-> s.res.timeout,
                     budget |-> Min(solver_timeout, time_remaining - 500),
                     priorChecked |-> Content(a) \in checked,
                     priorReturned |-> \E e \in returned : e.key = a,
                     priorModel |-> IF \E e \in returned : e.key = a
                                    THEN (CHOOSE e \in returned : e.key = a).model
                                    ELSE NoModel]
         /\ checked' = IF s.res.invoked THEN checked \cup {Content(a)} ELSE checked
         /\ returned' = IF s.res.outcome = "model" /\ ~(\E e \in returned : e.key = a)
                        THEN returned \cup {[key |-> a, model |-> s.res.model]}
                        ELSE returned
    /\ ncalls' = ncalls + 1
    /\ UNCHANGED <<time_remaining, solver_timeout, keccak_function_manager,
                   gs, result, sha>>

\* the time handler's budget runs down between calls
Tick ==
    /\ \E t \in TimeValues : t < time_remaining /\ time_remaining' = t
    /\ UNCHANGED <<cache, solver_timeout, keccak_function_manager, ncalls,
                   last, checked, returned, gs, result, sha>>

GetModel == GetModelFrom(CallArgs)

GetModelLiteral == GetModelFrom(LiteralArgs)

NextSolve == GetModel \/ Tick

SpecSolve == InitSolve /\ [][NextSolve]_vars

NextLiteral == GetModelLiteral \/ Tick

SpecLiteral == InitSolve /\ [][NextLiteral]_vars

(***************************************************************************)
(* Call data the concrete transactions are made of.                        *)
(***************************************************************************)
\* a function selector, 0x12345678
Selector == <<18, 52, 86, 120>>

\* 32-byte words: a symbolic hash value (all ff), a hash value with the
\* marker in its low bytes, and the plain value 0x2a
WordF == Rep(<<255>>, 32)
WordM == Rep(<<0>>, 28) \o Rep(<<255>>, 4)
WordP == Rep(<<0>>, 31) \o <<42>>

\* four ff bytes that do not fill a word
TailF == Rep(<<255>>, 4)

\* deployment bytecode
Bytecode == <<"6", "0", "8", "0">>

(***************************************************************************)
(* Specification of the preimage resolver: _replace_with_actual_sha runs   *)
(* over a list of concrete transactions, one window a step, and is then    *)
(* run again on its own output.                                            *)
(***************************************************************************)
Words == {WordF, WordM, WordP}

WordSeqs == {<<>>} \cup Words \cup {v \o w : v \in Words, w \in Words}

\* call data: a selector, up to two words, and in one case a short tail
DataShapes == {Selector \o ws : ws \in WordSeqs} \cup {Selector \o WordP \o TailF}

ShaCodes == {NoCode, Code(Bytecode)}

\* a concrete transaction with the given input
ConcreteTx(input) ==
    [input |-> input, value |-> <<"0", "x", "0">>,
     origin |-> <<"0", "x">> \o ZFill(<<"a">>, 40), address |-> <<"0", "x", "b">>]

\* the input of the first transaction: with code, a contract creation
FirstInput(code, data) == <<"0", "x">> \o code.bytecode \o JoinBytes(data)

ShaTxLists(code) ==
    {<<ConcreteTx(FirstInput(code, d))>> : d \in DataShapes}
    \cup {<<ConcreteTx(FirstInput(code, d)), ConcreteTx(<<"0", "x">> \o JoinBytes(e))>> :
            d \in DataShapes, e \in {Selector \o WordP, Selector \o WordF}}

\* the interpretations a model may give an inverse function
Interps ==
    {NoInterp, Interp(<<>>, CandA, CandA), Interp(<<>>, CandB, CandB),
     Interp(BitVecVal(ParseHex(JoinBytes(WordF)), 256), CandM, CandA)}

ShaModels == [inverse : [Sizes -> Interps]]

Registries == {[store_function |-> s] : s \in {<<256>>, <<256, 512>>, <<512, 256>>}}

InitSha ==
    /\ cache = <<>>
    /\ time_remaining = 20000
    /\ solver_timeout = 10000
    /\ keccak_function_manager \in Registries
    /\ ncalls = 0
    /\ last = NoCall
    /\ checked = {}
    /\ returned = {}
    /\ gs = NoGlobalState
    /\ result = NoResult
    /\ \E code \in ShaCodes : \E txs \in ShaTxLists(code) : \E model \in ShaModels :
         sha = [NoSha EXCEPT !.txs = txs, !.code = code, !.model = model,
                             !.t = 1, !.run = 1, !.orig = txs, !.start = txs,
                             !.prev = txs]

ShaUnchanged ==
    UNCHANGED <<cache, time_remaining, solver_timeout, keccak_function_manager,
                ncalls, last, checked, returned, gs, result>>

InTx == sha.run >= 1 /\ sha.t >= 1 /\ sha.t <= Len(sha.txs)

\* lines 142-143: a transaction without the marker is passed over
ShaSkip ==
    /\ InTx /\ sha.i = -1
    /\ ~Contains(sha.txs[sha.t].input, hash_matcher)
    /\ sha' = [sha EXCEPT !.t = sha.t + 1]
    /\ ShaUnchanged

\* lines 144-148: the scan of a transaction starts
ShaEnter ==
    /\ InTx /\ sha.i = -1
    /\ Contains(sha.txs[sha.t].input, hash_matcher)
    /\ LET s_index == SIndex(sha.txs[sha.t].input, sha.code)
       IN sha' = [sha EXCEPT !.i = s_index, !.s_index = s_index,
                             !.stop = Len(sha.txs[sha.t].input)]
    /\ ShaUnchanged

\* lines 149-178: one window
ShaWindow ==
    /\ InTx /\ sha.i # -1 /\ sha.i < sha.stop
    /\ LET r == ProcessWindow(sha.txs, sha.t, sha.i, sha.s_index, sha.model)
       IN sha' = [sha EXCEPT !.txs = r.txs, !.prev = sha.txs, !.i = sha.i + 64,
                    !.win = [scanned |-> TRUE, t |-> sha.t, i |-> sha.i,
                             s_index |-> sha.s_index, window |-> r.window,
                             substituted |-> r.substituted, input_ |-> r.input_,
                             probed |-> r.probed, hex_keccak |-> r.hex_keccak]]
    /\ ShaUnchanged

\* the range is exhausted: on to the next transaction
ShaLeave ==
    /\ InTx /\ sha.i # -1 /\ sha.i >= sha.stop
    /\ sha' = [sha EXCEPT !.t = sha.t + 1, !.i = -1]
    /\ ShaUnchanged

\* the function is called again on the list it has just worked on
ShaRerun ==
    /\ sha.run >= 1 /\ sha.run < MaxRuns /\ sha.t = Len(sha.txs) + 1
    /\ sha' = [sha EXCEPT !.run = sha.run + 1, !.t = 1, !.start = sha.txs,
                          !.prev = sha.txs, !.win = NoWindow]
    /\ ShaUnchanged

NextSha == ShaSkip \/ ShaEnter \/ ShaWindow \/ ShaLeave \/ ShaRerun

SpecSha == InitSha /\ [][NextSha]_vars

(***************************************************************************)
(* Specification of the extractor: get_transaction_sequence is called on   *)
(* a global state, with time left or with the budget used up.              *)
(***************************************************************************)
Addresses == {10, 11}

Account(a) == [address |-> a, nonce |-> 0, code |-> <<>>, storage |-> <<"{", "}">>]

\* the accounts of a world state, in the order of its dict
AccountLists == {<<Account(10)>>, <<Account(11)>>, <<Account(10), Account(11)>>}

Creation == [kind |-> "creation", callee |-> 11, code |-> Code(Bytecode)]
Call(a) == [kind |-> "call", callee |-> a, code |-> NoCode]

TxSequences == {<<Creation>>, <<Call(11)>>, <<Creation, Call(11)>>, <<Call(11), Call(10)>>}

\* the balances a model may give an account: 0, 10^20 and 10^23 and their
\* successors
BalanceValues ==
    {<<>>, Pow10(20), Succ(Pow10(20)), Pow10(23), Succ(Pow10(23))}

\* the path constraints the symbolic execution hands over
PathConstraints ==
    {<<>>,
     <<Expr("balance_eq", 10, Pow10(20))>>,
     <<Expr("balance_ugt", 10, Pow10(20))>>,
     <<Expr("balance_eq", 10, Pow10(23))>>,
     <<Expr("balance_ugt", 10, Pow10(23))>>,
     <<Expr("balance_ugt", 11, Pow10(23))>>,
     <<Expr("value_uge", 1, FromInt(1)), Expr("size_uge", 1, FromInt(2))>>,
     <<Expr("size_uge", 1, FromInt(36))>>}

GlobalStates ==
    [transaction_sequence : TxSequences, initial_accounts : AccountLists,
     world_state : [accounts : AccountLists], constraints : PathConstraints]

\* what a model may give one transaction: its caller, and its call value
\* and call data (none; a value and two bytes; a selector and a hash value)
TxValues ==
    {[caller |-> c, value |-> v[1], data |-> v[2]] :
        c \in Addresses, v \in {<<0, <<>> >>, <<1, <<1, 255>> >>, <<0, Selector \o WordF>>}}

ExtractModels(global_state) ==
    [sb : [Addresses -> BalanceValues],
     tx : [1..Len(global_state.transaction_sequence) -> TxValues],
     inverse : {[s \in Sizes |-> NoInterp],
                [s \in Sizes |-> IF s = 256 THEN Interp(<<>>, CandB, CandB) ELSE NoInterp]}]

InitExtract ==
    /\ cache = <<>>
    /\ time_remaining \in {500, 20000}
    /\ solver_timeout = 10000
    /\ keccak_function_manager = [store_function |-> <<256, 512>>]
    /\ ncalls = 0
    /\ last = NoCall
    /\ checked = {}
    /\ returned = {}
    /\ gs \in GlobalStates
    /\ result = NoResult
    /\ sha = NoSha

\* get_transaction_sequence(gs, gs.constraints)
Extract ==
    /\ result.status = "none"
    /\ LET a == ExtractCall(gs)
       IN \E s \in GetModelCall(a, ExtractModels(gs)) :
            /\ cache' = s.cache
            /\ result' =
                 IF s.res.outcome = "unsat"
                 THEN [NoResult EXCEPT !.status = "unsat", !.check = s.res.check,
                                       !.tx_constraints = a.constraints]
                 ELSE LET c == Concretize(gs, s.res.model)
                      IN [status |-> "ok", check |-> s.res.check,
                          model |-> s.res.model, concrete |-> c.concrete,
                          steps |-> c.steps, initialState |-> c.initialState,
                          tx_constraints |-> a.constraints]
    /\ UNCHANGED <<time_remaining, solver_timeout, keccak_function_manager,
                   ncalls, last, checked, returned, gs, sha>>

NextExtract == Extract

SpecExtract == InitExtract /\ [][NextExtract]_vars

(***************************************************************************)
(* Claims about get_model and its cache.                                   *)
(***************************************************************************)
\* C1 as stated: two calls with content-equal constraints, minimize and
\* maximize invoke the solver's check at most once in total, whatever the
\* first call's outcome was.
C1_AtMostOneCheck == ~(last.called /\ last.invoked /\ last.priorChecked)

\* C1 amended: a call whose cache key equals that of an earlier call that
\* returned a model does not invoke the solver and returns that model.
C1_CachedModelServed ==
    (last.called /\ last.priorReturned)
        => (~last.invoked /\ last.outcome = "model" /\ last.model = last.priorModel)

C1_Witness ==
    /\ last.called /\ last.priorReturned /\ last.hit
    /\ last.args.constraints = <<BoolLit(TRUE), XUge(1)>>
    /\ last.model = [x |-> 1]

\* C2 as stated: a call that enforces the execution time when the effective
\* timeout is <= 0 fails with UnsatError and does not invoke the solver.
C2_ExhaustedBudgetFails ==
    (last.called /\ last.args.enforce_execution_time /\ last.budget <= 0)
        => (last.outcome = "unsat" /\ ~last.invoked)

\* C2 amended: such a call never invokes the solver; it fails with
\* UnsatError unless an earlier call with the same cache key returned a
\* model, which is then returned.
C2_ExhaustedBudgetNoSolve ==
    (last.called /\ last.args.enforce_execution_time /\ last.budget <= 0)
        => /\ ~last.invoked
           /\ IF last.priorReturned
              THEN last.outcome = "model" /\ last.model = last.priorModel
              ELSE last.outcome = "unsat"

C2_Witness ==
    /\ last.called /\ last.args.enforce_execution_time
    /\ last.budget = 0 /\ time_remaining = 500
    /\ last.args.constraints = <<XUge(1)>>
    /\ ~last.priorReturned /\ last.outcome = "unsat" /\ ~last.invoked

\* C3: a call whose constraints contain the literal False at any position
\* fails with UnsatError, the solver is not invoked and nothing is added to
\* the solver session.
C3_LiteralFalseFails ==
    (last.called /\ \E i \in 1..Len(last.args.constraints) :
                       last.args.constraints[i] = BoolLit(FALSE))
        => (last.outcome = "unsat" /\ ~last.invoked /\ last.submitted = <<>>)

C3_Witness ==
    /\ last.called /\ last.args.constraints = <<XUge(1), BoolLit(FALSE)>>
    /\ ~last.args.enforce_execution_time
    /\ last.outcome = "unsat" /\ ~last.invoked

(***************************************************************************)
(* Claims about the extractor.                                             *)
(***************************************************************************)
Extracted == result.status = "ok"

NTx == Len(gs.transaction_sequence)

\* C4: a successful extraction returns one step per transaction of the
\* sequence, the i-th step being the concretization of the i-th
\* transaction: same address, value and origin, and an input of the same
\* length that differs from the concretized one only where the preimage
\* resolver rewrote marker windows.
C4_StepsFollowSequence ==
    Extracted
        => /\ Len(result.steps) = NTx
           /\ \A i \in 1..NTx :
                LET c == GetConcreteTransaction(result.model, gs.transaction_sequence[i], i)
                    st == result.steps[i]
                IN /\ st.address = c.address
                   /\ st.value = c.value
                   /\ st.origin = c.origin
                   /\ Len(st.input) = Len(c.input)
                   /\ SliceTo(st.input, 10) = SliceTo(c.input, 10)
                   /\ (st.input = c.input \/ Contains(c.input, hash_matcher))

C4_Witness ==
    /\ Extracted /\ NTx = 2
    /\ result.steps[1].address # result.steps[2].address
    /\ result.steps[1].input # result.steps[2].input
    /\ result.steps[1].input # result.concrete[1].input

\* the account with address a is one of accounts
HasAccount(accounts, a) == \E j \in 1..Len(accounts) : accounts[j].address = a

\* the solver was asked and did not time out
Decided == result.check \in {"sat", "unsat"}

\* the bounds of the constraints the builder added
BuilderBounds(account_bound, caller_bound) ==
    \A j \in 1..Len(result.tx_constraints) :
        LET c == result.tx_constraints[j]
        IN /\ c.op = "balance_ule" => c.k = account_bound
           /\ c.op = "caller_balance_ule" => c.k = caller_bound

\* a starting balance constrained to be exactly bound is accepted, one of a
\* world-state account constrained to be above it is Unsatisfiable
BoundaryAt(bound) ==
    /\ (gs.constraints = <<Expr("balance_eq", 10, bound)>> /\ Decided)
          => /\ Extracted
             /\ result.model.sb[10] = bound
             /\ \A j \in 1..Len(gs.initial_accounts) :
                   gs.initial_accounts[j].address = 10
                       => result.initialState[j].balance = PyHex(bound)
    /\ (gs.constraints = <<Expr("balance_ugt", 10, bound)>>
          /\ HasAccount(gs.world_state.accounts, 10))
          => result.status = "unsat"

\* C5 as stated: the per-account bound is 10^23 and the caller bound 10^21;
\* a balance of exactly 10^23 is accepted, one above 10^23 is Unsatisfiable.
C5_BoundIsE23 ==
    (result.status # "none")
        => (BuilderBounds(Pow10(23), Pow10(21)) /\ BoundaryAt(Pow10(23)))

\* C5 amended: the per-account bound is 10^20 and the caller bound 10^21;
\* a balance of exactly 10^20 is accepted, one of a world-state account
\* above 10^20 is Unsatisfiable.
C5_BoundIsE20 ==
    (result.status # "none")
        => (BuilderBounds(Pow10(20), Pow10(21)) /\ BoundaryAt(Pow10(20)))

C5_Witness ==
    /\ Extracted
    /\ gs.constraints = <<Expr("balance_eq", 10, Pow10(20))>>
    /\ HasAccount(gs.world_state.accounts, 10)
    /\ gs.initial_accounts = <<Account(10)>>
    /\ result.initialState[1].balance = PyHex(Pow10(20))

\* two hex digits per byte
TwoDigits(data) ==
    [p \in 1..(2 * Len(data)) |->
        IF p % 2 = 1 THEN HexDigits[(data[(p + 1) \div 2] \div 16) + 1]
        ELSE HexDigits[(data[p \div 2] % 16) + 1]]

C10_InitialBalancesBounded ==
    Extracted
        => \A j \in 1..Len(result.initialState) :
              UGE(Pow10(23), ParseHex(SliceFrom(result.initialState[j].balance, 2)))

(***************************************************************************)
(* Claims about the preimage resolver.                                     *)
(***************************************************************************)
\* no full 64-character window that a run would look at holds the marker
NoMarkerWindowLeft(txs, code) ==
    \A t \in 1..Len(txs) :
        LET input == txs[t].input
            s_index == SIndex(input, code)
        IN \A n \in 0..(Len(input) \div 64) :
              (s_index + 64 * n + 64 <= Len(input))
                  => ~Contains(SubSeq(input, s_index + 64 * n + 1, s_index + 64 * n + 64),
                               hash_matcher)

\* the model interprets the inverse function of no registered width
NoWidthEvaluates ==
    \A j \in 1..Len(keccak_function_manager.store_function) :
        ~sha.model.inverse[keccak_function_manager.store_function[j]].defined

\* C7 as stated: the resolver is idempotent: a second run on the list a
\* first run produced changes no transaction's call-data string.
C7_Idempotent == (sha.run >= 2) => (sha.txs = sha.start)

\* C7 amended: a run on an already resolved list changes nothing provided
\* no full window of that list, at the scan positions, still holds the
\* marker, or the model evaluates no registered inverse function.
C7_IdempotentOnceMarkerFree ==
    (sha.run >= 2 /\ (NoMarkerWindowLeft(sha.start, sha.code) \/ NoWidthEvaluates))
        => (sha.txs = sha.start)

C7_Witness ==
    /\ sha.run = 2 /\ sha.t = Len(sha.txs) + 1
    /\ sha.start # sha.orig
    /\ NoMarkerWindowLeft(sha.start, sha.code)
    /\ sha.txs = sha.start

\* the input of the transaction of the last window, before and after it
WinOld == sha.prev[sha.win.t].input
WinNew == sha.txs[sha.win.t].input

Substituted == sha.win.scanned /\ sha.win.substituted

OtherInputsKept ==
    /\ Len(sha.txs) = Len(sha.prev)
    /\ \A u \in 1..Len(sha.txs) : u # sha.win.t => sha.txs[u] = sha.prev[u]

\* C8 as stated: a substitution changes only the 64 characters of the
\* matching window; the rest of the string, its length and the other
\* transactions' strings are unchanged.
C8_OnlyWindowChanges ==
    Substituted
        => /\ Len(WinNew) = Len(WinOld)
           /\ \A p \in 1..Len(WinOld) :
                 (p <= sha.win.i \/ p > sha.win.i + 64) => WinNew[p] = WinOld[p]
           /\ OtherInputsKept

\* C8 amended: a substitution changes only characters at or after the search
\* offset that lie in an occurrence of the window's 64-character content
\* (every such occurrence is rewritten, the window's own or not); the
\* characters before the search offset, the string's length and the other
\* transactions are unchanged.
C8_OnlyOccurrencesChange ==
    Substituted
        => /\ Len(WinNew) = Len(WinOld)
           /\ \A p \in 1..Len(WinOld) :
                 WinNew[p] # WinOld[p]
                     => \E q \in (sha.win.s_index + 1)..p :
                           /\ p <= q + 63 /\ q + 63 <= Len(WinOld)
                           /\ SubSeq(WinOld, q, q + 63) = sha.win.window
           /\ OtherInputsKept

C8_Witness ==
    /\ Substituted
    /\ WinNew # WinOld
    /\ \E p \in (sha.win.i + 65)..Len(WinOld) : WinNew[p] # WinOld[p]

\* the registered widths, and what the model makes of each at the window
ProbeOrder == keccak_function_manager.store_function
FindInput == BitVecVal(ParseHex(sha.win.window), 256)
Evaluates(k) == sha.model.inverse[ProbeOrder[k]].defined
Candidate(k) ==
    [none |-> FALSE,
     value |-> BitVecVal(ModelEvalInverse(sha.model, ProbeOrder[k], FindInput).value,
                         ProbeOrder[k]),
     size |-> ProbeOrder[k]]
Visible(k) ==
    \E j \in 1..Len(sha.prev) : Contains(sha.prev[j].input, HexStr(Candidate(k).value))
VisibleSuccess(k) == Evaluates(k) /\ Visible(k)

IsMarkerWindow ==
    sha.win.scanned /\ Len(sha.win.window) = 64 /\ Contains(sha.win.window, hash_matcher)

\* the digest as 64 hex digits, zero-padded
Digest64(keccak) == ZFill(HexStr(keccak), 64)

\* C9: a marker window is left untouched exactly when inverse evaluation
\* fails for every registered width; otherwise the widths are probed in
\* registry order up to the first one that evaluates to a candidate visible
\* in some transaction's call data, whose forward hash is spliced in; when no
\* evaluated candidate is visible every width is probed and the forward hash
\* of the last width that evaluated is spliced in.
C9_ProbeOrder ==
    IsMarkerWindow
        => LET n == Len(ProbeOrder)
           IN /\ ~sha.win.substituted <=> \A k \in 1..n : ~Evaluates(k)
              /\ (\E k \in 1..n : VisibleSuccess(k))
                    => LET k0 == CHOOSE k \in 1..n :
                                   VisibleSuccess(k) /\ \A j \in 1..(k - 1) : ~VisibleSuccess(j)
                       IN /\ sha.win.input_ = Candidate(k0)
                          /\ sha.win.probed = SubSeq(ProbeOrder, 1, k0)
              /\ ((\E k \in 1..n : Evaluates(k)) /\ ~(\E k \in 1..n : VisibleSuccess(k)))
                    => LET k1 == CHOOSE k \in 1..n :
                                   Evaluates(k) /\ \A j \in (k + 1)..n : ~Evaluates(j)
                       IN /\ sha.win.input_ = Candidate(k1)
                          /\ sha.win.probed = ProbeOrder
              /\ sha.win.substituted
                    => /\ SliceFrom(sha.win.hex_keccak, 2)
                            = Digest64(find_concrete_keccak(sha.win.input_))
                       /\ Contains(SliceFrom(WinNew, sha.win.s_index),
                                   SliceFrom(sha.win.hex_keccak, 2))

C9_Witness ==
    /\ IsMarkerWindow /\ sha.win.substituted
    /\ Len(ProbeOrder) = 2
    /\ Evaluates(1) /\ ~Visible(1) /\ VisibleSuccess(2)
    /\ sha.win.input_ = Candidate(2)

====
